---- MODULE Spec2Model ----
(***************************************************************************)
(* ESP32 balloon telemetry node (ESP32_Telemetry.ino).                     *)
(*                                                                         *)
(* Device side: setup() followed by the cooperative loop(): handleClient,  *)
(* serviceReadyLed, the 1 s acquisition tick (MPL3115A2, MLX90614, DHT11   *)
(* with retries) and the /data.json builder.                               *)
(* Consumer side: the page script (updateTelemetry, resetFlight, ...).     *)
(*                                                                         *)
(* Every float of the program is a fixed-point integer counting 1/Scale of *)
(* its unit; NaN is a sentinel outside every range. All read results fed   *)
(* to the model are chosen so that the program's arithmetic is exact.      *)
(***************************************************************************)
EXTENDS Integers, Sequences, FiniteSets, TLC

VARIABLES
    pc,              \* position of the device's single thread
    millis,          \* millis(): the monotonic millisecond clock
    now,             \* loop(): local `now`
    g_lastSampleMs, g_lastDhtMs,
    mplOk, g_mlxOK,  \* presence flags set by setup()
    stDht,           \* setup(): st1.dht, the DHT result of the sensor self-test
    store,           \* s_alt_m, s_mplTempC, s_pres_hPa, s_dhtTempC, s_dhtHum, s_envObjC
    g_overheat, g_ledMode,
    level,           \* serviceReadyLed(): static bool level (the pin)
    dht,             \* loop(): locals i, ok, t, h of the DHT retry loop
    resp,            \* <<json>> sent by handleDataJson in this loop pass, else <<>>
    \* ---- history variables: written beside the code's effects, read by none ----
    lastValid,       \* per quantity: what the most recent valid read delivered
    \* the next four describe the latest pass of loop(), until the next one
    \* is past handleClient
    reads,           \* read attempts made, per source; the raw pressure read
    dhtLog,          \* the attempts of the DHT poll, in order: [ok, t, h, at]
    dhtPrev,         \* <<s_dhtTempC, s_dhtHum>> when the DHT poll began
    mlxLog,          \* the MLX read: <<>> or <<[ok, tC]>>
    dhtPolls,        \* DHT polls begun since boot
    snaps,           \* snapshots built since the latest tick began; -1 before the first tick
    dirty,           \* the current tick has changed the store and is not finished
    \* ---- the page script (consumer) ----
    state,           \* const state = { envelopeTempF, ..., timestamp, ambientSource }
    initialAlt, verticalSpeed, flightStartMs,
    tempHist,        \* samples { t, ambF, envF }, oldest first
    tempWindowMs,
    ENVELOPE_DIAMETER_FT,  \* the envelope diameter, in tenths of a foot
    geom,            \* VOLUME_M3, VOLUME_FT3, RADIUS_FT as recomputeFromDiameter left them
    dateNow,         \* Date.now(): the browser's wall clock
    dom,             \* the text render() last put on the page
    lastOkTs,        \* Date.now() of the last successful poll, 0 before the first
    recentRtts,      \* round-trip times of the latest successful polls, oldest first
    link,            \* what setLinkStatus() last put on the page
    \* ---- history variables of the consumer ----
    lastPacket,      \* <<>> or <<the packet ingested last>>
    op,              \* the handler that ran last
    resetFrom,       \* initialAlt as the latest resetFlight() found it
    dropped,         \* samples the latest change of tempHist removed
    rttLog           \* round-trip times of all successful polls, oldest first

dvars == <<pc, millis, now, g_lastSampleMs, g_lastDhtMs, mplOk, g_mlxOK, stDht,
           store, g_overheat, g_ledMode, level, dht, resp>>
hvars == <<lastValid, reads, dhtLog, dhtPrev, mlxLog, dhtPolls, snaps, dirty>>
lvars == <<lastOkTs, recentRtts, link>>
chvars == <<lastPacket, op, resetFrom, dropped, rttLog>>
gvars == <<ENVELOPE_DIAMETER_FT, geom>>
cvars == <<state, initialAlt, verticalSpeed, flightStartMs, tempHist, tempWindowMs,
           gvars, dateNow, dom, lvars, chvars>>
vars == <<dvars, hvars, cvars>>

\* ------------------------------------------------------------------ floats
\* A float is an integer counting 1/Scale of its unit.
Scale == 4500
NaN == -2000000000
isnan(x) == x = NaN
isfinite(x) == x # NaN

\* uint32_t subtraction; the model's word is ClockMod wide
ClockMod == 1048576
Sub32Signed(a, b) == a - b
Sub32(a, b) == (a - b + ClockMod) % ClockMod
Add32(a, b) == (a + b) % ClockMod

\* -------------------------------------------------------------- constants
TELEMETRY_PERIOD_MS == 1000
DHT_PERIOD_MS == 1200
OVERHEAT_ON_F == 200
OVERHEAT_OFF_F == 195
DHT_ATTEMPTS == 3
DHT_BACKOFF_MS == 60
MLX_SPACING_MS == 2

LED_OFF == 0
LED_SOLID == 1
LED_BLINK_SLOW == 2
LED_BLINK_FAST == 3
LED_DOUBLE == 4
RTT_CAP == 20

\* ----------------------------------------------------------------- bounds
MaxMillis == 9000      \* no pass of loop() takes the clock beyond this value
MaxHist == 3           \* no packet is ingested while the history holds this many samples
WallStepMs == 60000    \* the wall clock advances in steps of this
MaxWallMs == 120000    \* the wall clock stops this long after the page loaded
MaxLedMs == 2400       \* clock values at which the indicator is evaluated
MaxPolls == 22         \* successful polls followed
MaxSlowPolls == 1      \* of which this many may measure a slow round trip
MaxTimedPolls == 1     \* successful polls up to which the wall clock is followed
MaxLinkWallMs == 8000  \* wall-clock span over which the link status is followed
MaxWindowHist == 7     \* history length up to which the window is followed
MaxWindowWallMs == 360000  \* wall-clock span over which the window is followed
MaxLiftHist == 2       \* snapshots ingested while the lift is followed
MaxEngineHist == 2     \* snapshots ingested while all mutators are followed
MaxEngineWallMs == 60000  \* wall-clock span over which all mutators are followed
MaxWrapMs == 5000      \* clock span followed across the wrap of the clock word
LoopStepMs == 500      \* a pass of loop() ends at the clock's next multiple of this

\* ------------------------------------------------------------------ utils
c2f(c) == (c * 9) \div 5 + 32 * Scale

scalePressureInclusive(raw) ==
    IF raw >= 2000 * Scale THEN raw \div 100
    ELSE IF raw <= 50 * Scale THEN raw * 100
    ELSE raw
scalePressureToHectoPascal(raw) ==
    IF raw > 2000 * Scale THEN raw \div 100
    ELSE IF raw < 50 * Scale THEN raw * 100
    ELSE raw

\* String(x, decimals): x rounded half away from zero, counted in the last
\* printed digit (String(x,1): tenths; String(x,0): units).
RoundTo(x, unit) ==
    IF x >= 0 THEN (2 * x + unit) \div (2 * unit)
    ELSE 0 - ((2 * (0 - x) + unit) \div (2 * unit))
String1(x) == RoundTo(x, Scale \div 10)
String0(x) == RoundTo(x, Scale)

\* ------------------------------------------------------------ read results
\* What the bus drivers can deliver (value or failure), in 1/Scale units.
MplAltitudes == {NaN, 120 * Scale, 563670}            \* 120 m, 125.26 m
MplTemperatures == {NaN, 18 * Scale, 92250}           \* 18 C, 20.5 C
MplPressures == {NaN, 101325 * Scale, 1000 * Scale}
DhtReadings == { <<NaN, NaN>>, <<21 * Scale, 40 * Scale>>, <<24 * Scale, 55 * Scale>>,
                 <<21 * Scale, NaN>>, <<24 * Scale, 101 * Scale>> }
\* mlxReadWord: the bus transaction fails (-1) or delivers a 16-bit word
MlxWords == {-1, 0, 18158, 18185, 18186, 18324, 18325}

\* mlxReadTempC: tC = raw * 0.02 - 273.15
MlxTempC(raw) == raw * (Scale \div 50) - (27315 * Scale) \div 100
mlxReadTempCNoRange(raw) ==
    IF raw < 0 THEN [ok |-> FALSE, tC |-> NaN] ELSE [ok |-> TRUE, tC |-> MlxTempC(raw)]
mlxReadTempC(raw) ==
    IF raw < 0 THEN [ok |-> FALSE, tC |-> NaN]
    ELSE [ok |-> MlxTempC(raw) > (0 - 100) * Scale /\ MlxTempC(raw) < 300 * Scale,
          tC |-> MlxTempC(raw)]

\* readDhtOnce
readDhtOnce(r) ==
    [ok |-> ~isnan(r[1]) /\ ~isnan(r[2]) /\ r[2] >= 0 /\ r[2] <= 100 * Scale,
     t |-> r[1], h |-> r[2]]

\* ----------------------------------------------------------------- JSON
JNull == -1999999999
JsonNumber1Zero(x) == IF isnan(x) THEN 0 ELSE String1(x)
JsonNumber1(x) == IF isnan(x) THEN JNull ELSE String1(x)
JsonNumber0(x) == IF isnan(x) THEN JNull ELSE String0(x)
JsonTempF(c) == IF isnan(c) THEN JNull ELSE String1(c2f(c))

haveDht(st) == ~isnan(st.s_dhtTempC)
ambCPreferMpl(st) == IF ~isnan(st.s_mplTempC) THEN st.s_mplTempC ELSE st.s_dhtTempC
ambC(st) == IF haveDht(st) THEN st.s_dhtTempC ELSE st.s_mplTempC
ambSrc(st) == IF haveDht(st) THEN "DHT" ELSE "MPL"

buildTelemetryJson(st, ms) ==
    [envelopeTempF |-> JsonTempF(st.s_envObjC),
     ambientTempF  |-> JsonTempF(ambC(st)),
     humidityPct   |-> JsonNumber0(st.s_dhtHum),
     pressurehPa   |-> JsonNumber1(st.s_pres_hPa),
     altitudeM     |-> JsonNumber1(st.s_alt_m),
     ambientSource |-> ambSrc(st),
     timestamp     |-> ms]

\* ------------------------------------------------------------------ LED
\* serviceReadyLed: the level for mode m at clock t
LedLevelFourHz(m, t) ==
    IF m = LED_SOLID THEN TRUE
    ELSE IF m = LED_BLINK_SLOW THEN (t \div 500) % 2 = 1
    ELSE IF m = LED_BLINK_FAST THEN (t \div 125) % 2 = 1
    ELSE IF m = LED_DOUBLE THEN (t % 1200 < 120) \/ (t % 1200 >= 240 /\ t % 1200 < 360)
    ELSE FALSE
LedLevel(m, t) ==
    IF m = LED_OFF THEN FALSE
    ELSE IF m = LED_SOLID THEN TRUE
    ELSE IF m = LED_BLINK_SLOW THEN (t \div (1000 \div 2)) % 2 = 1
    ELSE IF m = LED_BLINK_FAST THEN (t \div (100 \div 2)) % 2 = 1
    ELSE IF m = LED_DOUBLE THEN (t % 1200 < 120) \/ (t % 1200 >= 240 /\ t % 1200 < 360)
    ELSE FALSE

\* ------------------------------------------------------------------ Init
NoStore == [s_alt_m |-> NaN, s_mplTempC |-> NaN, s_pres_hPa |-> NaN,
            s_dhtTempC |-> NaN, s_dhtHum |-> NaN, s_envObjC |-> NaN]
NoReads == [mpl |-> 0, mlx |-> 0, dht |-> 0, pres |-> NaN]
DhtLocals == [i |-> 0, ok |-> FALSE, t |-> NaN, h |-> NaN]

DeviceInit ==
    /\ pc = "boot"
    /\ millis = 0
    /\ now = 0
    /\ g_lastSampleMs = 0
    /\ g_lastDhtMs = 0
    /\ mplOk = FALSE
    /\ g_mlxOK = FALSE
    /\ stDht = FALSE
    /\ store = NoStore
    /\ g_overheat = FALSE
    /\ g_ledMode = LED_DOUBLE
    /\ level = FALSE
    /\ dht = DhtLocals
    /\ resp = <<>>
    /\ lastValid = NoStore
    /\ reads = NoReads
    /\ dhtLog = <<>>
    /\ dhtPrev = <<NaN, NaN>>
    /\ mlxLog = <<>>
    /\ dhtPolls = 0
    /\ snaps = 0 - 1
    /\ dirty = FALSE

\* ----------------------------------------------------------------- setup
\* setup(), up to the sensor probes: mpl.begin() and the MLX ACK probe
SetupProbe ==
    /\ pc = "boot"
    /\ g_ledMode' = LED_DOUBLE
    /\ \E m \in BOOLEAN : mplOk' = m
    /\ \E x \in BOOLEAN : g_mlxOK' = x
    /\ millis' = Add32(millis, 50 + 1500)
    /\ pc' = "selftest"
    /\ UNCHANGED <<now, g_lastSampleMs, g_lastDhtMs, stDht, store, g_overheat,
                   level, dht, resp, hvars>>
    /\ UNCHANGED cvars

\* setup(), from the first self-test to its end: the self-test reads the
\* sensors and stores nothing; READY flashes; LED solid; g_lastSampleMs
SetupFinish ==
    /\ pc = "selftest"
    /\ \E d \in BOOLEAN : stDht' = d
    /\ millis' = Add32(millis, 700 + 3 * (320 + 220) + 1400)
    /\ g_ledMode' = LED_SOLID
    /\ g_lastSampleMs' = millis'
    /\ pc' = "client"
    /\ UNCHANGED <<now, g_lastDhtMs, mplOk, g_mlxOK, store, g_overheat,
                   level, dht, resp, hvars>>
    /\ UNCHANGED cvars

\* ------------------------------------------------------------------ loop
\* server.handleClient(): a pending GET /data.json is answered, or nothing
HandleClientPreempting ==
    /\ pc \in {"client", "mlx", "dhtdue", "dht"}
    /\ resp' = <<buildTelemetryJson(store, millis)>>
    /\ pc' = IF pc = "client" THEN "led" ELSE pc
    /\ UNCHANGED <<millis, now, g_lastSampleMs, g_lastDhtMs, mplOk, g_mlxOK, stDht,
                   store, g_overheat, g_ledMode, level, dht, hvars>>
    /\ UNCHANGED cvars
HandleClient ==
    /\ pc = "client"
    /\ \E pending \in BOOLEAN :
          /\ resp' = IF pending THEN <<buildTelemetryJson(store, millis)>> ELSE <<>>
          /\ snaps' = IF pending /\ snaps >= 0 THEN snaps + 1 ELSE snaps
    /\ pc' = "led"
    /\ UNCHANGED <<millis, now, g_lastSampleMs, g_lastDhtMs, mplOk, g_mlxOK, stDht,
                   store, g_overheat, g_ledMode, level, dht,
                   lastValid, reads, dhtLog, dhtPrev, mlxLog, dhtPolls, dirty>>
    /\ UNCHANGED cvars

\* serviceReadyLed(); now = millis(); the telemetry period test
ServiceLed ==
    /\ pc = "led"
    /\ level' = LedLevel(g_ledMode, millis)
    /\ now' = millis
    /\ resp' = <<>>
    /\ IF Sub32(now', g_lastSampleMs) >= TELEMETRY_PERIOD_MS
       THEN /\ g_lastSampleMs' = now'
            /\ snaps' = 0
            /\ pc' = "mpl"
       ELSE /\ g_lastSampleMs' = g_lastSampleMs
            /\ snaps' = snaps
            /\ pc' = "oled"
    /\ reads' = NoReads
    /\ dhtLog' = <<>>
    /\ dhtPrev' = <<NaN, NaN>>
    /\ mlxLog' = <<>>
    /\ UNCHANGED <<millis, g_lastDhtMs, mplOk, g_mlxOK, stDht, store, g_overheat,
                   g_ledMode, dht, lastValid, dhtPolls, dirty>>
    /\ UNCHANGED cvars

\* if (mplOk): the Barometric block runs only for a source found at startup
MplGuardAlways(ok) == TRUE
MplGuard(ok) == ok

\* the store after a Barometric read delivering alt, tC, pres
MplStoreGlitch(st, alt, tC, pres) ==
    [st EXCEPT !.s_alt_m = alt, !.s_mplTempC = tC,
               !.s_pres_hPa = IF ~isnan(pres) THEN scalePressureToHectoPascal(pres) ELSE @]
MplStore(st, alt, tC, pres) ==
    [st EXCEPT !.s_alt_m = IF ~isnan(alt) THEN alt ELSE @,
               !.s_mplTempC = IF ~isnan(tC) THEN tC ELSE @,
               !.s_pres_hPa = IF ~isnan(pres) THEN scalePressureToHectoPascal(pres) ELSE @]

\* the MPL block of the tick, the sensor delivering values from the given sets
MplBlock(alts, temps, press) ==
    /\ pc = "mpl"
    /\ IF MplGuard(mplOk)
       THEN \E alt \in alts, tC \in temps, pres \in press :
              /\ store' = MplStore(store, alt, tC, pres)
              /\ lastValid' = [lastValid EXCEPT
                     !.s_alt_m = IF alt # NaN THEN alt ELSE @,
                     !.s_mplTempC = IF tC # NaN THEN tC ELSE @,
                     !.s_pres_hPa = IF pres # NaN
                                    THEN (IF pres > 2000 * Scale THEN pres \div 100
                                          ELSE IF pres < 50 * Scale THEN pres * 100
                                          ELSE pres)
                                    ELSE @]
              /\ reads' = [reads EXCEPT !.mpl = @ + 1, !.pres = pres]
       ELSE UNCHANGED <<store, lastValid, reads>>
    /\ dirty' = (dirty \/ store' # store)
    /\ pc' = "mlx"
    /\ UNCHANGED <<millis, now, g_lastSampleMs, g_lastDhtMs, mplOk, g_mlxOK, stDht,
                   g_overheat, g_ledMode, level, dht, resp, dhtLog, dhtPrev,
                   mlxLog, dhtPolls, snaps>>
    /\ UNCHANGED cvars

MplRead == MplBlock(MplAltitudes, MplTemperatures, MplPressures)

\* the overheat hysteresis: <<g_overheat, g_ledMode>> after a reading envF
HysteresisOneThreshold(over, mode, envF) ==
    IF ~over /\ envF >= OVERHEAT_ON_F * Scale THEN <<TRUE, LED_BLINK_FAST>>
    ELSE IF over /\ envF < OVERHEAT_ON_F * Scale THEN <<FALSE, LED_SOLID>>
    ELSE <<over, mode>>
HysteresisKeepsMode(over, mode, envF) ==
    IF ~over /\ envF >= OVERHEAT_ON_F * Scale THEN <<TRUE, mode>>
    ELSE IF over /\ envF <= OVERHEAT_OFF_F * Scale THEN <<FALSE, mode>>
    ELSE <<over, mode>>
HysteresisSlowOnRecovery(over, mode, envF) ==
    IF ~over /\ envF >= OVERHEAT_ON_F * Scale THEN <<TRUE, LED_BLINK_FAST>>
    ELSE IF over /\ envF <= OVERHEAT_OFF_F * Scale THEN <<FALSE, LED_BLINK_SLOW>>
    ELSE <<over, mode>>
Hysteresis(over, mode, envF) ==
    IF ~over /\ envF >= OVERHEAT_ON_F * Scale THEN <<TRUE, LED_BLINK_FAST>>
    ELSE IF over /\ envF <= OVERHEAT_OFF_F * Scale THEN <<FALSE, LED_SOLID>>
    ELSE <<over, mode>>

\* the MLX block of the tick
MlxRead ==
    /\ pc = "mlx"
    /\ IF g_mlxOK
       THEN \E raw \in MlxWords :
              LET r == mlxReadTempC(raw)
                  hy == Hysteresis(g_overheat, g_ledMode, c2f(r.tC))
              IN  /\ store' = IF r.ok THEN [store EXCEPT !.s_envObjC = r.tC] ELSE store
                  /\ g_overheat' = IF r.ok /\ isfinite(r.tC) THEN hy[1] ELSE g_overheat
                  /\ g_ledMode' = IF r.ok /\ isfinite(r.tC) THEN hy[2] ELSE g_ledMode
                  /\ lastValid' =
                        IF raw >= 0 /\ 50 * MlxTempC(raw) > (0 - 5000) * Scale
                                    /\ 50 * MlxTempC(raw) < 15000 * Scale
                        THEN [lastValid EXCEPT !.s_envObjC = MlxTempC(raw)]
                        ELSE lastValid
                  /\ reads' = [reads EXCEPT !.mlx = @ + 1]
                  /\ mlxLog' = Append(mlxLog, r)
                  /\ millis' = Add32(millis, MLX_SPACING_MS)
       ELSE UNCHANGED <<store, g_overheat, g_ledMode, lastValid, reads, mlxLog, millis>>
    /\ dirty' = (dirty \/ store' # store)
    /\ pc' = "dhtdue"
    /\ UNCHANGED <<now, g_lastSampleMs, g_lastDhtMs, mplOk, g_mlxOK, stDht,
                   level, dht, resp, dhtLog, dhtPrev, dhtPolls, snaps>>
    /\ UNCHANGED cvars

\* the DHT period test and the retry loop's initialisation
DhtDue ==
    /\ pc = "dhtdue"
    /\ IF Sub32(now, g_lastDhtMs) >= DHT_PERIOD_MS
       THEN /\ g_lastDhtMs' = now
            /\ dht' = DhtLocals
            /\ dhtPrev' = <<store.s_dhtTempC, store.s_dhtHum>>
            /\ dhtPolls' = dhtPolls + 1
            /\ pc' = "dht"
       ELSE /\ UNCHANGED <<g_lastDhtMs, dht, dhtPrev, dhtPolls>>
            /\ pc' = "oled"
    /\ UNCHANGED <<millis, now, g_lastSampleMs, mplOk, g_mlxOK, stDht, store,
                   g_overheat, g_ledMode, level, resp, lastValid, reads, dhtLog,
                   mlxLog, snaps, dirty>>
    /\ UNCHANGED cvars

\* for (i = 0; i < 3 && !ok; ++i): the retry loop's condition
DhtLoopUnbounded(d) == ~d.ok
DhtLoop(d) == d.i < DHT_ATTEMPTS /\ ~d.ok

\* one pass of the retry loop's body: readDhtOnce, then the backoff on failure
DhtAttempt ==
    /\ pc = "dht"
    /\ DhtLoop(dht)
    /\ \E rd \in DhtReadings :
          LET r == readDhtOnce(rd)
          IN  /\ dht' = [i |-> dht.i + 1, ok |-> r.ok, t |-> r.t, h |-> r.h]
              /\ millis' = IF r.ok THEN millis ELSE Add32(millis, DHT_BACKOFF_MS)
              /\ dhtLog' = Append(dhtLog, IF r.ok
                                           THEN [ok |-> TRUE, t |-> rd[1], h |-> rd[2], at |-> millis]
                                           ELSE [ok |-> FALSE, t |-> NaN, h |-> NaN, at |-> millis])
              /\ lastValid' =
                    IF rd[1] # NaN /\ rd[2] # NaN /\ rd[2] >= 0 /\ rd[2] <= 100 * Scale
                    THEN [lastValid EXCEPT !.s_dhtTempC = rd[1], !.s_dhtHum = rd[2]]
                    ELSE lastValid
    /\ reads' = [reads EXCEPT !.dht = @ + 1]
    /\ UNCHANGED <<pc, now, g_lastSampleMs, g_lastDhtMs, mplOk, g_mlxOK, stDht, store,
                   g_overheat, g_ledMode, level, resp, dhtPrev, mlxLog, dhtPolls, snaps, dirty>>
    /\ UNCHANGED cvars

\* the store after the retry loop ended with locals d
DhtStoreDropped(st, d) == st
DhtStoreHumOnly(st, d) == IF d.ok THEN [st EXCEPT !.s_dhtHum = d.h] ELSE st
DhtStoreClearOnFail(st, d) ==
    IF d.ok THEN [st EXCEPT !.s_dhtTempC = d.t, !.s_dhtHum = d.h]
    ELSE [st EXCEPT !.s_dhtTempC = NaN, !.s_dhtHum = NaN]
DhtStoreTempOnly(st, d) == IF d.ok THEN [st EXCEPT !.s_dhtTempC = d.t] ELSE st
DhtStore(st, d) ==
    IF d.ok THEN [st EXCEPT !.s_dhtTempC = d.t, !.s_dhtHum = d.h] ELSE st

\* the retry loop's exit: store on success, else keep the prior values
DhtFinish ==
    /\ pc = "dht"
    /\ ~DhtLoop(dht)
    /\ store' = DhtStore(store, dht)
    /\ dirty' = (dirty \/ store' # store)
    /\ pc' = "oled"
    /\ UNCHANGED <<millis, now, g_lastSampleMs, g_lastDhtMs, mplOk, g_mlxOK, stDht,
                   g_overheat, g_ledMode, level, dht, resp, lastValid, reads, dhtLog,
                   dhtPrev, mlxLog, dhtPolls, snaps>>
    /\ UNCHANGED cvars

\* the end of loop(): the OLED refresh; the pass has taken d ms, and the
\* clock is followed until it is max ms past origin
LoopEndWithin(origin, max) ==
    /\ pc = "oled"
    /\ \E d \in {LoopStepMs - (millis % LoopStepMs)} :
          /\ Sub32(millis, origin) + d <= max
          /\ millis' = Add32(millis, d)
    /\ pc' = "client"
    /\ dirty' = FALSE
    /\ dht' = DhtLocals
    /\ UNCHANGED <<now, g_lastSampleMs, g_lastDhtMs, mplOk, g_mlxOK, stDht, store,
                   g_overheat, g_ledMode, level, resp, lastValid, reads, dhtLog,
                   dhtPrev, mlxLog, dhtPolls, snaps>>
    /\ UNCHANGED cvars

LoopEnd == LoopEndWithin(0, MaxMillis)

\* ============================================================ page script
\* JavaScript values: a number, NaN, or null (JNull). A JSON number with one
\* decimal is counted in tenths, as the device printed it.
NumberIsFinite(x) == x # NaN /\ x # JNull
JsNumber(x) == IF x = JNull THEN 0 ELSE x

\* Date.now() when the page loads; device timestamps are far below it
WallEpoch == 1000000

\* the packets GET /data.json can deliver
PacketStores ==
    { [NoStore EXCEPT !.s_alt_m = a, !.s_envObjC = e, !.s_mplTempC = 92250] :
        a \in {NaN, 0, 10 * Scale}, e \in {NaN, MlxTempC(18325)} }
PacketTimes == {0, 1000, 2000}
Packets == { buildTelemetryJson(st, ms) : st \in PacketStores, ms \in PacketTimes }

\* exact fractions <<numerator, denominator>>, denominator > 0, in lowest terms
RECURSIVE Gcd(_, _)
Gcd(a, b) == IF b = 0 THEN a ELSE Gcd(b, a % b)
Abs(x) == IF x < 0 THEN 0 - x ELSE x
Frac(n, d) ==
    LET g == Gcd(Abs(n), Abs(d))
        sg == IF d < 0 THEN 0 - 1 ELSE 1
    IN  IF n = 0 THEN <<0, 1>> ELSE <<(sg * n) \div g, (sg * d) \div g>>

\* verticalSpeed = 0.7*verticalSpeed + 0.3*v, v = (alt - prevAlt)/dt in m/s,
\* for altitudes in tenths of a metre and dt = dtMs/1000
Smoothed(vs, dAlt10, dtMs) ==
    LET v == Frac(100 * dAlt10, dtMs)
    IN  Frac(7 * vs[1] * v[2] + 3 * v[1] * vs[2], 10 * vs[2] * v[2])

\* const ts = (packet && Number(packet.timestamp)) || Date.now()
PacketTs(packet, wall) ==
    IF NumberIsFinite(JsNumber(packet.timestamp)) /\ JsNumber(packet.timestamp) # 0
    THEN JsNumber(packet.timestamp)
    ELSE wall

\* verticalSpeed after a packet with time ts arrives over prevAlt, prevTs
SpeedAfter(vs, prevAlt, prevTs, alt, ts) ==
    IF NumberIsFinite(prevAlt) /\ NumberIsFinite(alt) /\ ts - prevTs > 0
    THEN Smoothed(vs, alt - prevAlt, ts - prevTs)
    ELSE vs

\* pushTempSample: append, then drop from the front what is older than the window
RECURSIVE Evict(_, _)
Evict(h, cutoff) ==
    IF h # <<>> /\ h[1].t < cutoff THEN Evict(Tail(h), cutoff) ELSE h
pushTempSampleInclusive(h, ts, ambF, envF, window) ==
    SelectSeq(Append(h, [t |-> ts, ambF |-> ambF, envF |-> envF]),
              LAMBDA x : x.t > ts - window)
pushTempSample(h, ts, ambF, envF, window) ==
    Evict(Append(h, [t |-> ts, ambF |-> ambF, envF |-> envF]), ts - window)

\* fmtFeet / fmtFeetDelta: tenths of a metre shown as tenths of a foot, or "--"
Dash == -1999999998
fmtFeet(x) == IF NumberIsFinite(x) THEN RoundTo(x * 10000, 3048) ELSE Dash

\* fmtFpsFromMs: a speed n/d m/s shown in hundredths of a foot per second,
\* (x * M_TO_FT).toFixed(2); the speed is carried to the nearest mm/s, a
\* fraction with a large denominator being scaled down first
fmtFpsFromMs(vs) ==
    LET s == vs[2] \div 50000 + 1
        mmps == RoundTo((vs[1] \div s) * 1000, vs[2] \div s)
    IN  RoundTo(mmps * 32808, 100000)

\* recomputeFromDiameter(): V = (4/3) pi (D * 0.3048 / 2)^3 for D in tenths of
\* a foot; VOLUME_M3 in hundredths of a cubic metre, VOLUME_FT3 in cubic
\* feet (V * 35.314667), RADIUS_FT in hundredths of a foot
NoGeometry == [VOLUME_M3 |-> NaN, VOLUME_FT3 |-> NaN, RADIUS_FT |-> NaN]
recomputeFromWholeTens(d, old) ==
    LET t == (d \div 100) * 100
        v == RoundTo(RoundTo(t * t * 14827, 10000) * t, 1000)
    IN  [VOLUME_M3 |-> v, VOLUME_FT3 |-> RoundTo(v * 35315, 100000), RADIUS_FT |-> d * 5]
recomputeFromDiameter(d, old) ==
    LET v == RoundTo(RoundTo(d * d * 14827, 10000) * d, 1000)
    IN  [VOLUME_M3 |-> v, VOLUME_FT3 |-> RoundTo(v * 35315, 100000), RADIUS_FT |-> d * 5]

\* densityAir(pressureHpa, tempF) = P / (R * T), in 1e-4 kg/m3, for a pressure
\* in tenths of a hPa and a temperature in tenths of a degree F:
\* P = (Number(pressureHpa) || 1013.25) * 100 Pa, T = (F + 459.67) * 5/9 K
\* with F = Number(tempF) || 20, and 1.8e6 / R = 6271 for R = 287.058
densityAir(pressureHpa, tempF) ==
    LET p == JsNumber(pressureHpa)
        f == JsNumber(tempF)
        P == IF NumberIsFinite(p) /\ p # 0 THEN p * 10 ELSE 101325
        F == IF NumberIsFinite(f) /\ f # 0 THEN f ELSE 200
    IN  RoundTo(P * 6271, 10 * F + 45967)

\* computeLift: L = (rhoOut - rhoIn) * VOLUME_M3 * G in 1e-5 N (G = 9.80665),
\* and the numerator of L / 4.4482216152605 over 44482, in hundredths of a lbf
computeLift(ambF, envF, pressureHpa, volM3) ==
    LET L == (densityAir(pressureHpa, ambF) - densityAir(pressureHpa, envF))
                 * RoundTo(volM3 * 9807, 10000)
    IN  [newtons |-> L, lbf |-> L * 10]

\* fmtLift: "-- unit" if not finite, else val.toFixed(decimals) with " (0)"
\* appended when val < 0; val = num / den in the last printed digit
fmtLift(num, den) ==
    IF ~NumberIsFinite(num) THEN [val |-> Dash, zeroNote |-> FALSE]
    ELSE [val |-> RoundTo(num, den), zeroNote |-> num < 0]

\* render(): the altitude, speed, volume, lift and window-header fields
render(st, init, vs, d, geo, windowMs) ==
    LET altM == JsNumber(st.altitudeM)
        initM == JsNumber(init)
        dAlt == IF NumberIsFinite(altM) /\ NumberIsFinite(initM) THEN altM - initM ELSE NaN
        L == computeLift(st.ambientTempF, st.envelopeTempF, st.pressurehPa, geo.VOLUME_M3)
    IN  [altNow |-> fmtFeet(altM), altInit |-> fmtFeet(initM), altDelta |-> fmtFeet(dAlt),
         vSpeed |-> fmtFpsFromMs(vs),
         envLabel |-> d,
         volFt3 |-> geo.VOLUME_FT3,
         liftLbf |-> fmtLift(L.lbf, 44482),
         liftN |-> fmtLift(L.newtons, 10000),
         tempHeader |-> RoundTo(windowMs, 60000)]

ClientState0 ==
    [envelopeTempF |-> NaN, ambientTempF |-> NaN, humidityPct |-> NaN,
     pressurehPa |-> NaN, altitudeM |-> NaN, timestamp |-> WallEpoch,
     ambientSource |-> ""]

\* setLinkStatus(nowMs): label, average round-trip time, age in tenths of a second
LinkLabelInclusive(age) ==
    IF age <= 3000 THEN "Live" ELSE IF age <= 8000 THEN "Degraded" ELSE "Offline"
LinkLabel(age) ==
    IF age < 3000 THEN "Live" ELSE IF age < 8000 THEN "Degraded" ELSE "Offline"
RECURSIVE SeqSum(_)
SeqSum(q) == IF q = <<>> THEN 0 ELSE q[1] + SeqSum(Tail(q))
setLinkStatus(nowMs, okTs, rtts) ==
    [label |-> LinkLabel(nowMs - okTs),
     rtt |-> IF rtts # <<>> THEN RoundTo(SeqSum(rtts), Len(rtts)) ELSE NaN,
     age |-> RoundTo(nowMs - okTs, 100)]

\* the page after its script has run once: state, render(), setLinkStatus(Date.now())
ClientInit ==
    /\ state = ClientState0
    /\ initialAlt = JNull
    /\ verticalSpeed = <<0, 1>>
    /\ flightStartMs = JNull
    /\ tempHist = <<>>
    /\ tempWindowMs = 5 * 60 * 1000
    /\ ENVELOPE_DIAMETER_FT = 200
    /\ geom = recomputeFromDiameter(200, NoGeometry)
    /\ dateNow = WallEpoch
    /\ dom = render(ClientState0, JNull, <<0, 1>>, 200, geom, tempWindowMs)
    /\ lastOkTs = 0
    /\ recentRtts = <<>>
    /\ link = setLinkStatus(WallEpoch, 0, <<>>)
    /\ lastPacket = <<>>
    /\ op = "init"
    /\ resetFrom = JNull
    /\ dropped = 0
    /\ rttLog = <<>>

\* if (initialAlt === null && Number.isFinite(state.altitudeM)) initialAlt = ...
FirstBaselineFollow(init, alt) == IF NumberIsFinite(alt) THEN alt ELSE init
FirstBaseline(init, alt) == IF init = JNull /\ NumberIsFinite(alt) THEN alt ELSE init

\* updateTelemetry(packet): what it assigns
updateTelemetry(packet) ==
    LET ts == PacketTs(packet, dateNow)
        prevAlt == state.altitudeM
        prevTs == state.timestamp
        st1 == [packet EXCEPT !.timestamp = ts]
        init1 == FirstBaseline(initialAlt, st1.altitudeM)
    IN  /\ state' = st1
        /\ initialAlt' = init1
        /\ verticalSpeed' = SpeedAfter(verticalSpeed, prevAlt, prevTs, st1.altitudeM, ts)
        /\ tempHist' = pushTempSample(tempHist, dateNow,
                           IF NumberIsFinite(st1.ambientTempF) THEN st1.ambientTempF ELSE NaN,
                           IF NumberIsFinite(st1.envelopeTempF) THEN st1.envelopeTempF ELSE NaN,
                           tempWindowMs)
        /\ dom' = render(st1, init1, verticalSpeed', ENVELOPE_DIAMETER_FT, geom, tempWindowMs)
        /\ lastPacket' = <<packet>>
        /\ dropped' = Len(tempHist) + 1 - Len(tempHist')
        /\ UNCHANGED <<flightStartMs, tempWindowMs, gvars, dateNow, resetFrom>>

\* a packet handed to window.updateTelemetry
UpdateTelemetry ==
    /\ Len(tempHist) < MaxHist
    /\ \E packet \in Packets : updateTelemetry(packet)
    /\ op' = "ingest"
    /\ UNCHANGED <<lvars, rttLog>>
    /\ UNCHANGED <<dvars, hvars>>

\* resetFlight(): the Start Flight / Reset Altitude button
ResetBaselineRetain(alt, old) == IF NumberIsFinite(alt) THEN alt ELSE old
ResetBaseline(alt, old) == IF NumberIsFinite(alt) THEN alt ELSE JNull
ResetFlight ==
    /\ initialAlt' = ResetBaseline(state.altitudeM, initialAlt)
    /\ verticalSpeed' = <<0, 1>>
    /\ flightStartMs' = dateNow
    /\ dom' = render(state, initialAlt', verticalSpeed', ENVELOPE_DIAMETER_FT, geom,
                      tempWindowMs)
    /\ op' = "reset"
    /\ resetFrom' = initialAlt
    /\ UNCHANGED <<state, tempHist, tempWindowMs, gvars, dateNow, lastPacket, dropped,
                   rttLog>>
    /\ UNCHANGED lvars
    /\ UNCHANGED <<dvars, hvars>>

\* the wall clock advances by one of the steps, up to max after the page loaded
Elapse(steps, max) ==
    /\ \E d \in steps :
          /\ dateNow + d <= WallEpoch + max
          /\ dateNow' = dateNow + d
    /\ op' = "clock"
    /\ UNCHANGED <<state, initialAlt, verticalSpeed, flightStartMs, tempHist,
                   tempWindowMs, gvars, dom, lastPacket, resetFrom, dropped, rttLog>>
    /\ UNCHANGED lvars
    /\ UNCHANGED <<dvars, hvars>>

\* between two snapshots handed to the page a minute passes, or none
WallSteps == {60000}
WallClock == Elapse(WallSteps, MaxWallMs)

\* ---- the temperature history over a long stretch of wall-clock time
\* the snapshots polled meanwhile: no altitude, envelope reading present or not
WindowPackets ==
    { buildTelemetryJson([NoStore EXCEPT !.s_envObjC = e, !.s_mplTempC = 92250], 1000) :
        e \in {NaN, MlxTempC(18325)} }

\* at most one snapshot is ingested per value of the wall clock
WindowIngest ==
    /\ Len(tempHist) < MaxWindowHist
    /\ tempHist # <<>> => tempHist[Len(tempHist)].t < dateNow
    /\ \E packet \in WindowPackets : updateTelemetry(packet)
    /\ op' = "ingest"
    /\ UNCHANGED <<lvars, rttLog>>
    /\ UNCHANGED <<dvars, hvars>>

\* the tempWindow <select>: 2, 5, 10 or 15 minutes
WindowMinutes == {2, 5, 10, 15}
HorizonTrimKeepAll(h, nowMs, window) == h
HorizonTrim(h, nowMs, window) == Evict(h, nowMs - window)
TempWindowChange ==
    /\ \E mins \in WindowMinutes :
          /\ tempWindowMs' = mins * 60 * 1000
          /\ tempHist' = HorizonTrim(tempHist, dateNow, tempWindowMs')
    /\ dom' = render(state, initialAlt, verticalSpeed, ENVELOPE_DIAMETER_FT, geom,
                      tempWindowMs')
    /\ dropped' = Len(tempHist) - Len(tempHist')
    /\ op' = "window"
    /\ UNCHANGED <<state, initialAlt, verticalSpeed, flightStartMs, gvars, dateNow,
                   lastPacket, resetFrom, rttLog>>
    /\ UNCHANGED lvars
    /\ UNCHANGED <<dvars, hvars>>

WindowClock == Elapse({WallStepMs}, MaxWindowWallMs)

\* ---- the envelope diameter and the lift
\* parseFloat(envelopeInput.value), in tenths of a foot: not a number, 0,
\* -5, 10, 20 or 25.5 ft
DiameterInputs == {NaN, 0, 0 - 50, 100, 200, 255}

\* the envelopeInput change handler
EnvelopeChange ==
    /\ \E val \in DiameterInputs :
          IF NumberIsFinite(val) /\ val > 0
          THEN /\ ENVELOPE_DIAMETER_FT' = val
               /\ geom' = recomputeFromDiameter(val, geom)
               /\ dom' = render(state, initialAlt, verticalSpeed, val, geom', tempWindowMs)
          ELSE UNCHANGED <<gvars, dom>>
    /\ op' = "diameter"
    /\ UNCHANGED <<state, initialAlt, verticalSpeed, flightStartMs, tempHist, tempWindowMs,
                   dateNow, lastPacket, resetFrom, dropped, rttLog>>
    /\ UNCHANGED lvars
    /\ UNCHANGED <<dvars, hvars>>

\* ---- every mutator of the page's state together: snapshots stamped by the
\* device with or without an altitude, the reset button, both controls
EnginePackets ==
    { buildTelemetryJson([NoStore EXCEPT !.s_alt_m = a, !.s_envObjC = MlxTempC(18325),
                                         !.s_mplTempC = 92250], ms) :
        a \in {NaN, 0, 10 * Scale}, ms \in {1000, 2000} }
EngineIngest ==
    /\ Len(tempHist) < MaxEngineHist
    /\ \E packet \in EnginePackets : updateTelemetry(packet)
    /\ op' = "ingest"
    /\ UNCHANGED <<lvars, rttLog>>
    /\ UNCHANGED <<dvars, hvars>>
EngineClock == Elapse(WallSteps, MaxEngineWallMs)

\* the snapshots the lift is followed over: ambient (from the Barometric
\* source) absent, 0, 10 or 70 F; envelope absent, 0, 10, 70 or 212 F;
\* pressure absent or 1013.25 hPa
LiftAmbients == {NaN, 0 - 80000, 0 - 55000, 95000}
LiftEnvelopes == {NaN, MlxTempC(12769), MlxTempC(13046), MlxTempC(14713), MlxTempC(18658)}
LiftPressures == {NaN, scalePressureToHectoPascal(101325 * Scale)}
LiftPackets ==
    { buildTelemetryJson([NoStore EXCEPT !.s_mplTempC = a, !.s_envObjC = e,
                                         !.s_pres_hPa = p], 1000) :
        a \in LiftAmbients, e \in LiftEnvelopes, p \in LiftPressures }
LiftIngest ==
    /\ Len(tempHist) < MaxLiftHist
    /\ \E packet \in LiftPackets : updateTelemetry(packet)
    /\ op' = "ingest"
    /\ UNCHANGED <<lvars, rttLog>>
    /\ UNCHANGED <<dvars, hvars>>

\* ---- polling and the link status
\* recentRtts.push(rtt); if (recentRtts.length > 20) recentRtts.shift()
RttPushDropNewest(q, rtt) == IF Len(q) + 1 > RTT_CAP THEN q ELSE Append(q, rtt)
RttPush(q, rtt) == IF Len(q) + 1 > RTT_CAP THEN Tail(Append(q, rtt)) ELSE Append(q, rtt)

\* the snapshot a poll fetches, and the round-trip times it can measure: the
\* usual one, and a slow one for at most MaxSlowPolls polls
LinkPacket == buildTelemetryJson([NoStore EXCEPT !.s_mplTempC = 92250], 1000)
FastRtts == {12}
SlowRtts == {250}
RttChoices ==
    IF Cardinality({i \in 1..Len(rttLog) : rttLog[i] \in SlowRtts}) < MaxSlowPolls
    THEN FastRtts \cup SlowRtts ELSE FastRtts

\* poll(): fetch /data.json; on success ingest it and note the contact; then
\* setLinkStatus(Date.now()) either way
PollStampsFailures ==
    /\ Len(rttLog) < MaxPolls
    /\ \E ok \in BOOLEAN :
          IF ok
          THEN \E rtt \in RttChoices :
                  /\ updateTelemetry(LinkPacket)
                  /\ lastOkTs' = dateNow
                  /\ recentRtts' = RttPush(recentRtts, rtt)
                  /\ rttLog' = Append(rttLog, rtt)
                  /\ link' = setLinkStatus(dateNow, lastOkTs', recentRtts')
          ELSE /\ lastOkTs' = dateNow
               /\ link' = setLinkStatus(dateNow, lastOkTs', recentRtts)
               /\ UNCHANGED <<state, initialAlt, verticalSpeed, flightStartMs, tempHist,
                              tempWindowMs, gvars, dateNow, dom, recentRtts,
                              lastPacket, resetFrom, dropped, rttLog>>
    /\ op' = "poll"
    /\ UNCHANGED <<dvars, hvars>>

Poll ==
    /\ Len(rttLog) < MaxPolls
    /\ \E ok \in BOOLEAN :
          IF ok
          THEN \E rtt \in RttChoices :
                  /\ updateTelemetry(LinkPacket)
                  /\ lastOkTs' = dateNow
                  /\ recentRtts' = RttPush(recentRtts, rtt)
                  /\ rttLog' = Append(rttLog, rtt)
                  /\ link' = setLinkStatus(dateNow, lastOkTs', recentRtts')
          ELSE /\ link' = setLinkStatus(dateNow, lastOkTs, recentRtts)
               /\ UNCHANGED <<state, initialAlt, verticalSpeed, flightStartMs, tempHist,
                              tempWindowMs, gvars, dateNow, dom, lastOkTs, recentRtts,
                              lastPacket, resetFrom, dropped, rttLog>>
    /\ op' = "poll"
    /\ UNCHANGED <<dvars, hvars>>

\* setInterval(() => setLinkStatus(Date.now()), 500), and the resize handler
LinkTimer ==
    /\ link' = setLinkStatus(dateNow, lastOkTs, recentRtts)
    /\ op' = "timer"
    /\ UNCHANGED <<state, initialAlt, verticalSpeed, flightStartMs, tempHist,
                   tempWindowMs, gvars, dateNow, dom, lastOkTs, recentRtts,
                   lastPacket, resetFrom, dropped, rttLog>>
    /\ UNCHANGED <<dvars, hvars>>

\* the wall clock is followed until MaxTimedPolls polls have succeeded; the
\* polls after that arrive within one value of it
LinkSteps == {2999, 3000, 5000}
LinkClock ==
    /\ Len(rttLog) <= MaxTimedPolls
    /\ Elapse(LinkSteps, MaxLinkWallMs)

Init == DeviceInit /\ ClientInit

\* ---- serviceReadyLed() on its own: every mode, every clock value
LedModes == {LED_OFF, LED_SOLID, LED_BLINK_SLOW, LED_BLINK_FAST, LED_DOUBLE}
LedInit ==
    /\ pc = "led"
    /\ g_ledMode \in LedModes
    /\ millis = 0 /\ now = 0 /\ level = FALSE
    /\ g_lastSampleMs = 0 /\ g_lastDhtMs = 0
    /\ mplOk = FALSE /\ g_mlxOK = FALSE /\ stDht = FALSE
    /\ store = NoStore /\ g_overheat = FALSE
    /\ dht = DhtLocals /\ resp = <<>>
    /\ lastValid = NoStore /\ reads = NoReads /\ dhtLog = <<>>
    /\ dhtPrev = <<NaN, NaN>> /\ mlxLog = <<>> /\ dhtPolls = 0 /\ snaps = 0 - 1 /\ dirty = FALSE
    /\ ClientInit

\* serviceReadyLed(): now = millis(); level by mode; digitalWrite
LedService ==
    /\ pc = "led"
    /\ now' = millis
    /\ level' = LedLevel(g_ledMode, now')
    /\ pc' = "ledDone"
    /\ UNCHANGED <<millis, g_lastSampleMs, g_lastDhtMs, mplOk, g_mlxOK, stDht,
                   store, g_overheat, g_ledMode, dht, resp, hvars>>
    /\ UNCHANGED cvars

\* a millisecond passes before the next call
LedElapse ==
    /\ pc = "ledDone"
    /\ millis + 1 <= MaxLedMs
    /\ millis' = millis + 1
    /\ pc' = "led"
    /\ UNCHANGED <<now, g_lastSampleMs, g_lastDhtMs, mplOk, g_mlxOK, stDht,
                   store, g_overheat, g_ledMode, level, dht, resp, hvars>>
    /\ UNCHANGED cvars

LedNext ==
    \/ LedService
    \/ LedElapse

LedSpec == LedInit /\ [][LedNext]_vars

\* ---- the pressure read of the MPL block on its own: raw values in Pa, hPa
\* and kPa, on both sides of the two unit thresholds
RawPressures ==
    {NaN} \cup { k * Scale : k \in (0..60) \cup (1990..2010) \cup {95000, 101325} }
          \cup { 50 * Scale - 100, 50 * Scale + 100, 2000 * Scale - 100, 2000 * Scale + 100 }
PressureInit ==
    /\ pc = "mpl"
    /\ mplOk = TRUE
    /\ g_ledMode = LED_SOLID
    /\ millis = 0 /\ now = 0 /\ level = FALSE
    /\ g_lastSampleMs = 0 /\ g_lastDhtMs = 0
    /\ g_mlxOK = FALSE /\ stDht = FALSE
    /\ store = NoStore /\ g_overheat = FALSE
    /\ dht = DhtLocals /\ resp = <<>>
    /\ lastValid = NoStore /\ reads = NoReads /\ dhtLog = <<>>
    /\ dhtPrev = <<NaN, NaN>> /\ mlxLog = <<>> /\ dhtPolls = 0 /\ snaps = 0 - 1 /\ dirty = FALSE
    /\ ClientInit

PressureRead == MplBlock({NaN}, {NaN}, RawPressures)

\* the rest of the pass, up to the MPL block of the next tick
PressurePass ==
    /\ pc = "mlx"
    /\ pc' = "mpl"
    /\ reads' = NoReads
    /\ dirty' = FALSE
    /\ UNCHANGED <<millis, now, g_lastSampleMs, g_lastDhtMs, mplOk, g_mlxOK, stDht,
                   store, g_overheat, g_ledMode, level, dht, resp, lastValid,
                   dhtLog, dhtPrev, mlxLog, dhtPolls, snaps>>
    /\ UNCHANGED cvars

PressureNext ==
    \/ PressureRead
    \/ PressurePass

PressureSpec == PressureInit /\ [][PressureNext]_vars

\* ---- loop() late in the uptime: the clock word wraps WrapLead ms after
\* the state below, reached with no source ever delivering a value; the last
\* tick, which polled the DHT, was 500 ms earlier
WrapLead == 1576
WrapStart == ClockMod - WrapLead
WrapInit ==
    /\ pc = "client"
    /\ millis = WrapStart /\ now = WrapStart - 500 /\ level = TRUE
    /\ g_lastSampleMs = WrapStart - 500 /\ g_lastDhtMs = WrapStart - 500
    /\ mplOk = FALSE /\ g_mlxOK = FALSE /\ stDht \in BOOLEAN
    /\ store = NoStore /\ g_overheat = FALSE /\ g_ledMode = LED_SOLID
    /\ dht = DhtLocals /\ resp = <<>>
    /\ lastValid = NoStore /\ reads = NoReads /\ dhtLog = <<>>
    /\ dhtPrev = <<NaN, NaN>> /\ mlxLog = <<>> /\ dhtPolls = 1 /\ snaps = 0 /\ dirty = FALSE
    /\ ClientInit
WrapLoopEnd == LoopEndWithin(WrapStart, MaxWrapMs)
WrapNext ==
    \/ HandleClient
    \/ ServiceLed
    \/ MplRead
    \/ MlxRead
    \/ DhtDue
    \/ DhtAttempt
    \/ DhtFinish
    \/ WrapLoopEnd
WrapSpec == WrapInit /\ [][WrapNext]_vars

Next ==
    \/ SetupProbe
    \/ SetupFinish
    \/ HandleClient
    \/ ServiceLed
    \/ MplRead
    \/ MlxRead
    \/ DhtDue
    \/ DhtAttempt
    \/ DhtFinish
    \/ LoopEnd

Spec == Init /\ [][Next]_vars

\* loop() runs on one thread that never stops: some step is always taken
FairSpec == Spec /\ WF_vars(Next)

ClientNext ==
    \/ UpdateTelemetry
    \/ ResetFlight
    \/ WallClock

ClientSpec == Init /\ [][ClientNext]_vars

WindowNext ==
    \/ WindowIngest
    \/ TempWindowChange
    \/ WindowClock

WindowSpec == Init /\ [][WindowNext]_vars

LinkNext ==
    \/ Poll
    \/ LinkTimer
    \/ LinkClock

LinkSpec == Init /\ [][LinkNext]_vars

LiftNext ==
    \/ LiftIngest
    \/ EnvelopeChange
LiftSpec == Init /\ [][LiftNext]_vars

EngineNext ==
    \/ EngineIngest
    \/ ResetFlight
    \/ EnvelopeChange
    \/ TempWindowChange
    \/ EngineClock
EngineSpec == Init /\ [][EngineNext]_vars

\* ================================================================ claims
Last(q) == q[Len(q)]
SnapshotKeys == {"envelopeTempF", "ambientTempF", "humidityPct", "pressurehPa",
                 "altitudeM", "ambientSource", "timestamp"}
TickPcs == {"mpl", "mlx", "dhtdue", "dht"}

\* C1: outside the DHT retry loop, every stored quantity is what the most
\* recent valid read of it delivered (pressure after normalisation), or NaN
\* when no read of it was valid since boot; failed reads change nothing.
C1_StoreIsLastValidRead == pc # "dht" => store = lastValid

\* a DHT poll has just failed three times and the store still holds the
\* values of an earlier valid read, beside a normalised pressure
C1_Witness ==
    /\ pc = "oled" /\ Len(dhtLog) = 3 /\ ~dhtLog[3].ok
    /\ store.s_dhtTempC = 21 * Scale /\ store.s_dhtHum = 40 * Scale
    /\ store.s_pres_hPa = 4559625 /\ reads.mpl = 1

\* C2: a valid envelope reading v (Fahrenheit) takes Normal to Overheated iff
\* v >= 200 and Overheated to Normal iff v <= 195; any other reading, and any
\* step that is no valid envelope reading, leaves the overheat state alone.
C2_HysteresisRule ==
    [][ IF Len(mlxLog') = Len(mlxLog) + 1 /\ Last(mlxLog').ok
        THEN LET v == c2f(Last(mlxLog').tC)
             IN  g_overheat' = IF ~g_overheat /\ v >= 200 * Scale THEN TRUE
                               ELSE IF g_overheat /\ v <= 195 * Scale THEN FALSE
                               ELSE g_overheat
        ELSE g_overheat' = g_overheat ]_vars

\* overheated, and the reading just processed lies inside the dead band
C2_Witness ==
    /\ g_overheat /\ mlxLog # <<>> /\ Last(mlxLog).ok
    /\ c2f(Last(mlxLog).tC) > 195 * Scale /\ c2f(Last(mlxLog).tC) < 200 * Scale

\* C3: a snapshot's ambient is the DHT temperature with tag "DHT" when the
\* store holds one, else the MPL temperature (null when absent) with tag
\* "MPL"; the tag is one of the two literals.
C3_AmbientFallback ==
    resp # <<>> =>
        LET j == resp[1]
        IN  /\ j.ambientSource \in {"DHT", "MPL"}
            /\ IF store.s_dhtTempC # NaN
               THEN /\ j.ambientSource = "DHT"
                    /\ j.ambientTempF = String1(c2f(store.s_dhtTempC))
               ELSE /\ j.ambientSource = "MPL"
                    /\ j.ambientTempF = IF store.s_mplTempC = NaN THEN JNull
                                        ELSE String1(c2f(store.s_mplTempC))

\* a snapshot that fell back to the MPL temperature, 20.5 C = 68.9 F
C3_Witness ==
    /\ resp # <<>> /\ resp[1].ambientSource = "MPL" /\ resp[1].ambientTempF = 689
    /\ store.s_mplTempC = 92250

\* C4: no snapshot rests on a cached choice: while no DHT read has been valid
\* and an MPL temperature has, the tag is "MPL"; from the first valid DHT
\* read on, the next snapshot carries "DHT" and that read's temperature.
C4_TagFollowsReads ==
    resp # <<>> =>
        LET j == resp[1]
        IN  /\ (lastValid.s_dhtTempC = NaN /\ lastValid.s_mplTempC # NaN)
                  => j.ambientSource = "MPL"
            /\ lastValid.s_dhtTempC # NaN
                  => /\ j.ambientSource = "DHT"
                     /\ j.ambientTempF = String1(c2f(lastValid.s_dhtTempC))

\* the first snapshot after the second DHT poll, which stored the first valid
\* DHT reading while an MPL temperature was held
C4_Witness ==
    /\ pc = "led" /\ resp # <<>> /\ resp[1].ambientSource = "DHT"
    /\ dhtPolls = 2 /\ dhtLog # <<>> /\ Last(dhtLog).ok /\ dhtPrev = <<NaN, NaN>>
    /\ store.s_mplTempC # NaN

\* C5: a snapshot has exactly the seven keys, and each measurement is the
\* null marker iff the quantity is absent in the store (ambient after the
\* fallback); an absent quantity is never 0.
C5_NullMarkers ==
    resp # <<>> =>
        LET j == resp[1]
        IN  /\ DOMAIN j = SnapshotKeys
            /\ (j.envelopeTempF = JNull) <=> (store.s_envObjC = NaN)
            /\ (j.ambientTempF = JNull) <=>
                  (store.s_dhtTempC = NaN /\ store.s_mplTempC = NaN)
            /\ (j.humidityPct = JNull) <=> (store.s_dhtHum = NaN)
            /\ (j.pressurehPa = JNull) <=> (store.s_pres_hPa = NaN)
            /\ (j.altitudeM = JNull) <=> (store.s_alt_m = NaN)
            /\ store.s_envObjC = NaN => j.envelopeTempF # 0
            /\ store.s_dhtHum = NaN => j.humidityPct # 0
            /\ store.s_pres_hPa = NaN => j.pressurehPa # 0
            /\ store.s_alt_m = NaN => j.altitudeM # 0

\* a snapshot mixing nulls and numbers
C5_Witness ==
    /\ resp # <<>>
    /\ resp[1].envelopeTempF = JNull /\ resp[1].humidityPct = JNull
    /\ resp[1].pressurehPa = JNull /\ resp[1].altitudeM = 1253
    /\ resp[1].ambientTempF # JNull

\* C6: a snapshot is built only between passes of the acquisition tick, from
\* a store no unfinished tick has touched.
C6_NoTornSnapshot == resp # <<>> => (pc = "led" /\ ~dirty)

\* a snapshot right after a tick that read all three sources
C6_Witness ==
    /\ resp # <<>> /\ reads.mpl = 1 /\ reads.mlx = 1 /\ reads.dht > 0
    /\ resp[1].envelopeTempF # JNull /\ resp[1].altitudeM # JNull
    /\ resp[1].humidityPct # JNull

\* C7: a DHT poll makes at most 3 attempts, all but the last failed and each
\* 60 ms after the one before; when it ends, either the last attempt
\* succeeded and both stored DHT values are that attempt's, or all 3 failed
\* and both are what they were before the poll.
C7_DhtRetry ==
    /\ Len(dhtLog) <= 3
    /\ \A k \in 1..(Len(dhtLog) - 1) :
          ~dhtLog[k].ok /\ dhtLog[k + 1].at >= dhtLog[k].at + 60
    /\ (pc \in {"oled", "client", "led"} /\ dhtLog # <<>>) =>
          IF Last(dhtLog).ok
          THEN <<store.s_dhtTempC, store.s_dhtHum>> = <<Last(dhtLog).t, Last(dhtLog).h>>
          ELSE Len(dhtLog) = 3 /\ <<store.s_dhtTempC, store.s_dhtHum>> = dhtPrev

\* the third attempt succeeded and replaced both earlier values
C7_Witness ==
    /\ pc = "oled" /\ Len(dhtLog) = 3 /\ dhtLog[3].ok
    /\ dhtPrev = <<21 * Scale, 40 * Scale>>
    /\ store.s_dhtTempC = 24 * Scale /\ store.s_dhtHum = 55 * Scale

\* C8 as stated: the presence of all three sources is fixed at startup, and a
\* source found absent then is never read in any tick.
C8_AllSourcesGated ==
    [][ /\ pc # "boot" => (mplOk' = mplOk /\ g_mlxOK' = g_mlxOK)
        /\ pc \notin {"boot", "selftest"} => stDht' = stDht
        /\ reads'.mpl > reads.mpl => mplOk
        /\ reads'.mlx > reads.mlx => g_mlxOK
        /\ reads'.dht > reads.dht => stDht ]_vars

\* C8 amended: the presence of the Barometric and ObjectTemp sources is fixed
\* at startup and an absent one is never read; the HumidityTemp source has no
\* presence flag, and every due DHT poll makes its first read attempt.
C8_FlaggedSourcesGated ==
    [][ /\ pc # "boot" => (mplOk' = mplOk /\ g_mlxOK' = g_mlxOK)
        /\ reads'.mpl > reads.mpl => mplOk
        /\ reads'.mlx > reads.mlx => g_mlxOK
        /\ (pc = "dht" /\ dht.i = 0) => reads'.dht = reads.dht + 1 ]_vars

\* a tick that skipped the absent MPL, read the MLX, and reads a DHT that the
\* startup self-test had found absent
C8_Witness ==
    /\ ~mplOk /\ g_mlxOK /\ ~stDht
    /\ pc = "dht" /\ reads.mpl = 0 /\ reads.mlx = 1 /\ reads.dht = 1

\* C9: a tick makes at most 1 MPL read, 1 MLX read and 3 DHT attempts, and
\* always reaches its end; while no read has been valid since boot, every
\* snapshot has all five measurements null.
C9_TickTerminates ==
    /\ [](reads.mpl <= 1 /\ reads.mlx <= 1 /\ reads.dht <= 3)
    /\ ((pc \in TickPcs) ~> (pc = "oled"))
    /\ []((resp # <<>> /\ lastValid = NoStore) =>
            /\ resp[1].envelopeTempF = JNull /\ resp[1].ambientTempF = JNull
            /\ resp[1].humidityPct = JNull /\ resp[1].pressurehPa = JNull
            /\ resp[1].altitudeM = JNull)

\* a snapshot after a tick in which every present source failed every read
C9_Witness ==
    /\ resp # <<>> /\ lastValid = NoStore
    /\ mplOk /\ g_mlxOK /\ reads.mpl = 1 /\ reads.mlx = 1 /\ reads.dht = 3
    /\ resp[1].altitudeM = JNull

\* C10: when a snapshot with present altitude a1 and timestamp t1 is ingested
\* after one with present altitude a0 and timestamp t0 < t1, the smoothed
\* vertical speed becomes 0.7*v_old + 0.3*(a1 - a0)/((t1 - t0)/1000 s); from a
\* zero estimator, (0 m, t = 0) then (10 m, t = 1 s) gives 3.0 m/s.
C10_SpeedFromPacketTimes ==
    [][ (lastPacket # <<>> /\ lastPacket' # <<>> /\ lastPacket' # lastPacket)
        => LET a0 == lastPacket[1].altitudeM
               t0 == lastPacket[1].timestamp
               a1 == lastPacket'[1].altitudeM
               t1 == lastPacket'[1].timestamp
               n == verticalSpeed[1]
               d == verticalSpeed[2]
           IN  (a0 # JNull /\ a1 # JNull /\ t1 > t0)
               => verticalSpeed' = Frac(7 * n * (t1 - t0) + 300 * (a1 - a0) * d,
                                        10 * d * (t1 - t0)) ]_vars

\* C11: ingesting a snapshot leaves the smoothed vertical speed unchanged when
\* its altitude or the previously held altitude is absent, or when its
\* timestamp is not later than the previous snapshot's.
C11_RejectedKeepsSpeed ==
    [][ (tempHist' # tempHist /\ lastPacket' # <<>>)
        => LET a1 == lastPacket'[1].altitudeM
               t1 == lastPacket'[1].timestamp
               prevAbsent == lastPacket = <<>> \/ lastPacket[1].altitudeM = JNull
           IN  (a1 = JNull \/ prevAbsent \/ t1 <= lastPacket[1].timestamp)
               => verticalSpeed' = verticalSpeed ]_vars

\* C12: right after a reset the baseline is the held altitude if that is
\* present and null otherwise, whatever the baseline was before.
C12_ResetOverwritesBaseline ==
    op = "reset" =>
        /\ (state.altitudeM \notin {NaN, JNull} => initialAlt = state.altitudeM)
        /\ (state.altitudeM \in {NaN, JNull} => initialAlt = JNull)

\* a reset that found a captured baseline and no current altitude
C12_Witness ==
    /\ op = "reset" /\ resetFrom \notin {NaN, JNull}
    /\ state.altitudeM = JNull /\ initialAlt = JNull

\* C13: the altitude delta shown is current altitude - baseline when both
\* are present, and "--" whenever the current altitude is absent (a null
\* received in a snapshot included) or the baseline is null.
C13_DeltaUndefinedIfAbsent ==
    dom.altDelta =
        IF state.altitudeM \notin {NaN, JNull} /\ initialAlt \notin {NaN, JNull}
        THEN RoundTo((state.altitudeM - initialAlt) * 10000, 3048)
        ELSE Dash

\* C14: after a snapshot with a null altitude the current-altitude field
\* shows "--", and while the baseline is null the initial-altitude field
\* shows "--"; neither shows a number.
C14_AbsentNeverNumeric ==
    /\ (state.altitudeM = JNull => dom.altNow = Dash)
    /\ (initialAlt = JNull => dom.altInit = Dash)

\* C15: an ingest at time ts with horizon H appends (ts, ambientF-or-absent,
\* envelopeF-or-absent) at the back, then removes from the front exactly the
\* samples with timestamp < ts - H; a sample at exactly ts - H stays.
C15_AppendThenEvict ==
    [][ (op' = "ingest" /\ tempHist' # tempHist)
        => LET p == lastPacket'[1]
               smp == [t |-> dateNow,
                       ambF |-> IF p.ambientTempF = JNull THEN NaN ELSE p.ambientTempF,
                       envF |-> IF p.envelopeTempF = JNull THEN NaN ELSE p.envelopeTempF]
               all == Append(tempHist, smp)
           IN  \E k \in 0..Len(tempHist) :
                  /\ tempHist' = SubSeq(all, k + 1, Len(all))
                  /\ \A i \in 1..k : all[i].t < dateNow - tempWindowMs
                  /\ all[k + 1].t >= dateNow - tempWindowMs ]_vars

\* horizon 5 min, ingests every 60 s: the ingest at 360 s drops the sample of
\* 0 s and keeps the one of 60 s
C15_Witness ==
    /\ op = "ingest" /\ tempWindowMs = 300000 /\ dateNow = WallEpoch + 360000
    /\ dropped = 1 /\ Len(tempHist) = 6
    /\ \A i \in 1..6 : tempHist[i].t = WallEpoch + i * 60000

\* C16: at every moment every sample held in the history has
\* timestamp >= now - horizon.
C16_NothingOlderThanHorizon ==
    \A i \in 1..Len(tempHist) : tempHist[i].t >= dateNow - tempWindowMs

\* C17: changing the horizon to H' at time now removes exactly the samples
\* with timestamp < now - H' and keeps, in order, all the others; nothing
\* that was evicted comes back.
C17_HorizonChangeTrims ==
    [][ (op' = "window" /\ <<tempHist, tempWindowMs, op>>' # <<tempHist, tempWindowMs, op>>)
        => tempHist' = SelectSeq(tempHist, LAMBDA x : x.t >= dateNow - tempWindowMs') ]_vars

\* a change of horizon that removed samples and kept one at exactly now - H'
C17_Witness ==
    /\ op = "window" /\ dropped > 0 /\ tempHist # <<>>
    /\ tempHist[1].t = dateNow - tempWindowMs

\* C18: whenever the link status has just been evaluated, the label is Live
\* for age < 3000 ms, Degraded for 3000 <= age < 8000, Offline otherwise,
\* age being now - time of the last successful poll; before any successful
\* poll it is Offline.
C18_LivenessLabel ==
    op \in {"init", "poll", "timer"} =>
        LET age == dateNow - lastOkTs
        IN  /\ (age < 3000 => link.label = "Live")
            /\ (age >= 3000 /\ age < 8000 => link.label = "Degraded")
            /\ (age >= 8000 => link.label = "Offline")
            /\ (rttLog = <<>> => link.label = "Offline")

\* the status evaluated exactly 3000 ms after a successful poll
C18_Witness ==
    /\ op = "timer" /\ rttLog # <<>> /\ dateNow - lastOkTs = 3000
    /\ link.label = "Degraded"

\* C19: the round-trip buffer holds at most 20 samples: the round-trip times
\* of the most recent successful polls, in arrival order.
C19_RttBufferIsLatest20 ==
    /\ Len(recentRtts) <= 20
    /\ recentRtts = SubSeq(rttLog, IF Len(rttLog) > 20 THEN Len(rttLog) - 19 ELSE 1,
                            Len(rttLog))

\* the 21st successful poll has pushed out the first, slow, round trip
C19_Witness ==
    /\ Len(rttLog) = 21 /\ rttLog[1] \in SlowRtts
    /\ Len(recentRtts) = 20
    /\ \A i \in 1..20 : recentRtts[i] \in FastRtts

C21_UnitNormalizer ==
    (reads.mpl = 1 /\ reads.pres # NaN) =>
        LET p == reads.pres
            n == store.s_pres_hPa
        IN  /\ (p > 2000 * Scale => n * 100 = p)
            /\ (p < 50 * Scale => n = p * 100)
            /\ (p >= 50 * Scale /\ p <= 2000 * Scale =>
                   n = p /\ scalePressureToHectoPascal(n) = n)

\* a raw pressure of exactly 2000 has been read and stored as 2000
C21_Witness ==
    reads.mpl = 1 /\ reads.pres = 2000 * Scale /\ store.s_pres_hPa = 2000 * Scale

\* C22: entering Overheated sets the indicator mode to FastBlink, returning
\* to Normal sets it to Solid, and an envelope reading that causes neither
\* leaves the mode as it was.
C22_TransitionRequestsMode ==
    [][ /\ (~g_overheat /\ g_overheat' => g_ledMode' = LED_BLINK_FAST)
        /\ (g_overheat /\ ~g_overheat' => g_ledMode' = LED_SOLID)
        /\ (Len(mlxLog') = Len(mlxLog) + 1 /\ g_overheat' = g_overheat
               => g_ledMode' = g_ledMode) ]_vars

\* a reading at or below 195 F has just set the mode to Solid in a pass that
\* began in FastBlink (the pin was driven low at the start of the pass)
C22_Witness ==
    /\ pc = "dhtdue" /\ ~g_overheat /\ g_ledMode = LED_SOLID /\ ~level
    /\ mlxLog # <<>> /\ Last(mlxLog).ok
    /\ c2f(Last(mlxLog).tC) <= 195 * Scale

\* C23: while setup() runs in the DoublePulse mode the LED pin shows the
\* DoublePulse waveform; once setup() has switched the mode to Solid the
\* mode is never DoublePulse again.
C23_BootShowsDoublePulse ==
    /\ pc = "selftest" =>
           (level <=> (millis % 1200 \in 0..119 \/ millis % 1200 \in 240..359))
    /\ pc \notin {"boot", "selftest"} => g_ledMode # LED_DOUBLE

\* C24: exactly one snapshot is built between two consecutive acquisition
\* ticks: when a tick begins, one snapshot has been built since the previous
\* tick began, and a second snapshot is never built before the next tick.
C24_OneSnapshotPerTick ==
    [][ /\ snaps' <= 1
        /\ (pc = "led" /\ pc' = "mpl" /\ snaps >= 0 => snaps = 1) ]_vars

\* C25: a snapshot built after an acquisition tick carries, as its
\* timestamp, the monotonic-clock time of the latest acquisition tick.
C25_TimestampIsTickTime ==
    (resp # <<>> /\ snaps >= 1) => resp[1].timestamp = g_lastSampleMs

\* C26: once HumidityTemp has been polled, a pass of loop() never ends with
\* the HumidityTemp poll overdue: if at least 1200 ms had elapsed since the
\* previous HumidityTemp poll when the pass read the clock, the pass has
\* polled HumidityTemp, whether or not the 1000 ms tick was due.
C26_DhtPolledWhenDue ==
    (pc = "oled" /\ dhtPolls >= 1) => Sub32(now, g_lastDhtMs) < DHT_PERIOD_MS

\* C27: a snapshot whose timestamp is older than that of the snapshot the
\* page holds never becomes the page's state: over successive ingests of
\* device-stamped snapshots the held timestamp never decreases.
C27_HeldTimestampNeverDecreases ==
    [][ (/\ op' = "ingest" /\ lastPacket # <<>>
         /\ lastPacket[1].timestamp > 0 /\ lastPacket'[1].timestamp > 0)
            => state'.timestamp >= state.timestamp ]_vars

\* C28: with ambient and envelope temperatures both present in the held
\* snapshot, the displayed lift (newtons and pounds-force) is 0 when they are
\* equal, positive when the envelope is hotter and negative, shown as a
\* negative number, when it is colder, for every diameter and pressure.
C28_LiftSignFollowsTemperatures ==
    LET a == state.ambientTempF
        e == state.envelopeTempF
    IN  (lastPacket # <<>> /\ NumberIsFinite(a) /\ NumberIsFinite(e)) =>
            /\ (e = a => dom.liftN.val = 0 /\ dom.liftLbf.val = 0)
            /\ (e > a => dom.liftN.val > 0 /\ dom.liftLbf.val > 0)
            /\ (e < a => dom.liftN.val < 0 /\ dom.liftLbf.val < 0)

\* C29: when the held snapshot lacks the ambient temperature, the envelope
\* temperature or the pressure, both lift fields show "--".
C29_LiftUndefinedIfInputAbsent ==
    (/\ lastPacket # <<>>
     /\ \/ ~NumberIsFinite(state.ambientTempF)
        \/ ~NumberIsFinite(state.envelopeTempF)
        \/ ~NumberIsFinite(state.pressurehPa))
        => dom.liftN.val = Dash /\ dom.liftLbf.val = Dash

\* C30: whichever mutator ran last (ingest, reset, diameter change,
\* temp-window change), the displayed altitude delta, vertical speed,
\* envelope volume, lift and window label are those computed from the
\* current state, and the displayed volume is that of a sphere of the
\* current diameter, (pi/6) D^3, to within 2 cubic feet.
C30_DerivedFieldsFresh ==
    LET d == ENVELOPE_DIAMETER_FT
    IN  /\ dom = render(state, initialAlt, verticalSpeed, d,
                        recomputeFromDiameter(d, geom), tempWindowMs)
        /\ Abs(dom.volFt3 * 10000 - ((d * d * d) \div 1000) * 5236) <= 20000

\* a snapshot was ingested, the flight was reset, the window was set to 15
\* minutes and the diameter was then changed to 25.5 ft while the balloon
\* was climbing
C30_Witness ==
    /\ op = "diameter" /\ ENVELOPE_DIAMETER_FT = 255 /\ dom.envLabel = 255
    /\ dom.volFt3 > 8000
    /\ tempWindowMs = 15 * 60 * 1000 /\ dom.tempHeader = 15
    /\ flightStartMs # JNull /\ lastPacket # <<>>
    /\ verticalSpeed[1] > 0 /\ dom.vSpeed > 0

\* C31: the flight baseline is null while no reset has happened and no
\* snapshot has been ingested; an ingest sets it, to the snapshot's altitude,
\* only when it was null and the altitude is present, and otherwise leaves
\* it as it was; no handler other than ingest and reset changes it.
C31_BaselineFrame ==
    [][ /\ (flightStartMs = JNull /\ lastPacket = <<>> => initialAlt = JNull)
        /\ (op' = "ingest" /\ initialAlt # JNull => initialAlt' = initialAlt)
        /\ (op' = "ingest" /\ initialAlt = JNull =>
               initialAlt' = IF NumberIsFinite(state'.altitudeM)
                             THEN state'.altitudeM ELSE JNull)
        /\ (initialAlt' # initialAlt => op' \in {"ingest", "reset"}) ]_vars

\* a snapshot with a present altitude other than the baseline has just been
\* ingested and the baseline is still set
C31_Witness ==
    /\ op = "ingest" /\ initialAlt # JNull
    /\ NumberIsFinite(state.altitudeM) /\ state.altitudeM # initialAlt

C33_LastOkFrame ==
    [][ /\ lastOkTs' >= lastOkTs
        /\ (lastOkTs' # lastOkTs =>
               op' = "poll" /\ Len(rttLog') = Len(rttLog) + 1 /\ lastOkTs' = dateNow)
        /\ (op' = "poll" /\ rttLog' = rttLog =>
               lastOkTs' = lastOkTs /\ recentRtts' = recentRtts)
        /\ ((/\ op \in {"init", "poll", "timer"} /\ op' \in {"poll", "timer"}
             /\ rttLog' = rttLog)
               => link'.label = link.label) ]_vars

\* a poll has just failed 5 s after the last successful one: the time of
\* the last success and the buffer are those of that poll, the label Degraded
C33_Witness ==
    /\ op = "poll" /\ Len(rttLog) = 1 /\ recentRtts = rttLog
    /\ dateNow - lastOkTs = 5000 /\ link.label = "Degraded"

\* C34: a stored DHT temperature is never cleared, and once a DHT read has
\* been valid every snapshot built afterwards carries the tag "DHT" and the
\* temperature of the latest valid DHT read, however many polls failed since.
C34_DhtTagSticks ==
    [][ /\ (store.s_dhtTempC # NaN => store'.s_dhtTempC # NaN)
        /\ ((lastValid.s_dhtTempC # NaN /\ resp' # <<>>) =>
               /\ resp'[1].ambientSource = "DHT"
               /\ resp'[1].ambientTempF = String1(c2f(lastValid.s_dhtTempC))) ]_vars

\* the pass before this snapshot polled the DHT three times without success;
\* the snapshot carries the earlier 21 C = 69.8 F with the tag "DHT" although
\* an MPL temperature is held
C34_Witness ==
    /\ pc = "led" /\ resp # <<>> /\ Len(dhtLog) = 3 /\ ~dhtLog[3].ok
    /\ resp[1].ambientSource = "DHT" /\ resp[1].ambientTempF = 698
    /\ store.s_mplTempC # NaN

\* C35: once setup() has completed, the indicator mode is FastBlink exactly
\* when the overheat flag is set and Solid exactly when it is clear (so never
\* Off, SlowBlink or DoublePulse), and serviceReadyLed() leaves the mode as
\* it found it.
C35_ModeMatchesOverheat ==
    [][ /\ (pc' \notin {"boot", "selftest"} =>
               /\ (g_overheat' <=> g_ledMode' = LED_BLINK_FAST)
               /\ (~g_overheat' <=> g_ledMode' = LED_SOLID))
        /\ (pc = "led" => g_ledMode' = g_ledMode) ]_vars

\* a pass that was no tick has evaluated the waveform while Overheated
C35_Witness ==
    /\ pc = "oled" /\ mlxLog = <<>> /\ reads = NoReads
    /\ g_overheat /\ g_ledMode = LED_BLINK_FAST /\ ~level

\* C36: the stored DHT temperature and humidity are both absent, or are the
\* temperature and humidity one valid DHT read delivered together; and a
\* snapshot's humidityPct is null exactly when its ambient tag is "MPL".
C36_DhtPairStaysTogether ==
    /\ \/ <<store.s_dhtTempC, store.s_dhtHum>> = <<NaN, NaN>>
       \/ \E r \in DhtReadings :
             /\ r[1] # NaN /\ r[2] # NaN /\ r[2] >= 0 /\ r[2] <= 100 * Scale
             /\ <<store.s_dhtTempC, store.s_dhtHum>> = r
    /\ resp # <<>> => (resp[1].humidityPct = JNull <=> resp[1].ambientSource = "MPL")

\* a snapshot built after a second valid DHT read replaced the pair
\* (21 C, 40 %) by (24 C, 55 %): 75.2 F and 55 %
C36_Witness ==
    /\ pc = "led" /\ resp # <<>> /\ dhtPrev = <<21 * Scale, 40 * Scale>>
    /\ resp[1].ambientSource = "DHT" /\ resp[1].ambientTempF = 752
    /\ resp[1].humidityPct = 55

\* C37: across the wrap of the clock word a pass is a tick exactly when the
\* time truly elapsed since the previous tick is at least 1000 ms, and a tick
\* polls the DHT exactly when the time truly elapsed since the previous poll
\* is at least 1200 ms; times are counted from 500 ms before the first
\* state, over a span shorter than the clock word.
SinceWrapOrigin(t) == (t - (WrapStart - 500) + ClockMod) % ClockMod
C37_DueTestsSurviveWrap ==
    [][ /\ (pc = "led" =>
               (pc' = "mpl" <=>
                   SinceWrapOrigin(millis) - SinceWrapOrigin(g_lastSampleMs)
                       >= TELEMETRY_PERIOD_MS))
        /\ (pc = "dhtdue" =>
               (pc' = "dht" <=>
                   SinceWrapOrigin(now) - SinceWrapOrigin(g_lastDhtMs)
                       >= DHT_PERIOD_MS)) ]_vars

\* the first tick after the wrap has just fired: the previous tick, which
\* polled the DHT, dates from before the wrap and less than 1200 ms ago
C37_Witness ==
    /\ pc = "mpl" /\ g_lastSampleMs = now /\ g_lastDhtMs > now
    /\ (now - g_lastDhtMs + ClockMod) % ClockMod < DHT_PERIOD_MS

\* C38: right after a snapshot carrying a numeric timestamp, 0 included, has
\* been ingested, the time the page holds for it is that timestamp, not the
\* wall clock.
C38_NumericTimestampKept ==
    (op = "ingest" /\ lastPacket # <<>> /\ NumberIsFinite(lastPacket[1].timestamp))
        => state.timestamp = lastPacket[1].timestamp

====
